---- MODULE Spec2Model ----
(***************************************************************************)
(* Model of the smart402 Rust SDK (framework/sdk/rust):                    *)
(*   - core/contract.rs   Contract lifecycle facade                        *)
(*   - core/smart402.rs   contract creation                                *)
(*   - utils/mod.rs       generate_contract_id                             *)
(*   - x402/client.rs     X402 payment header protocol                     *)
(* Strings are TLA+ strings (Len and \o act on them as on Rust Strings of  *)
(* ASCII text); Option<T> is a sequence of length 0 (None) or 1 (Some).    *)
(* An f64 amount is carried as an integer number of tenths.                *)
(***************************************************************************)
EXTENDS Integers, Sequences, FiniteSets, TLC

VARIABLES
    contracts,  \* the Contract instances created so far (sequence)
    pc,         \* per caller: the line of the Contract method it executes
    target,     \* per caller: index of the Contract it has borrowed (0: none)
    arg,        \* per caller: the network argument of its deploy() call
    ret,        \* per caller: the value its last call returned
    now,        \* SystemTime::now() in whole seconds since UNIX_EPOCH
    genIds,     \* the ids returned by generate_contract_id, in call order
    xucl,       \* the UCLContract handed to the X402 client
    issued,     \* the X402Headers returned by generate_headers, in call order
    verified,   \* the last verify_response call: its input and its result
    eucl,       \* the UCLContract handed to the AEO and LLMO engines
    out         \* the last engine call: its name, arguments and result

vars == <<contracts, pc, target, arg, ret, now, genIds, xucl, issued, verified,
          eucl, out>>
lifecycleVars == <<contracts, pc, target, arg, ret, genIds>>
x402Vars == <<xucl, issued, verified>>
engineVars == <<eucl, out>>

-----------------------------------------------------------------------------
(* Bounds                                                                  *)

MaxContracts == 2   \* contracts created in one run
MaxTicks == 2       \* seconds the clock advances in one run
StartTime == 9      \* clock reading at the start (9 -> 10 changes the digit count)
MaxIds == 3         \* generate_contract_id calls in one run
MaxHeaders == 2     \* generate_headers calls in one run

Threads == {"t1", "t2"}
Networks == {"polygon", "polygon-mumbai"}
ContractTypes == {"test", "saas-subscription"}

-----------------------------------------------------------------------------
(* Option<T>                                                               *)

None == <<>>
Some(x) == <<x>>

(* Number formatting: format!("{}", n) and format!("{:x}", n) of an        *)
(* unsigned integer.                                                       *)
Digits == <<"0", "1", "2", "3", "4", "5", "6", "7", "8", "9",
            "a", "b", "c", "d", "e", "f">>

RECURSIVE ToDecimal(_)
ToDecimal(n) ==
    IF n < 10 THEN Digits[n + 1]
    ELSE ToDecimal(n \div 10) \o Digits[(n % 10) + 1]

RECURSIVE ToHex(_)
ToHex(n) ==
    IF n < 16 THEN Digits[n + 1]
    ELSE ToHex(n \div 16) \o Digits[(n % 16) + 1]

(* f64: a number of tenths, or the one value NaN that is not a number and  *)
(* for which every ordered comparison is false.                            *)
NaN == -1000000007
F64Lt(a, b) == a # NaN /\ b # NaN /\ a < b
F64Ge(a, b) == a # NaN /\ b # NaN /\ a >= b

(* A Display that drops the fractional part.                               *)
AmountToString_Truncated(a) ==
    LET m == IF a < 0 THEN 0 - a ELSE a
        body == ToDecimal(m \div 10)
    IN  IF a = NaN THEN "NaN"
        ELSE IF a < 0 THEN "-" \o body ELSE body

(* f64 Display of an amount given in tenths: 990 -> "99", 1 -> "0.1",      *)
(* -100 -> "-10", NaN -> "NaN".                                            *)
AmountToString(a) ==
    LET m == IF a < 0 THEN 0 - a ELSE a
        body == IF m % 10 = 0 THEN ToDecimal(m \div 10)
                ELSE ToDecimal(m \div 10) \o "." \o ToDecimal(m % 10)
    IN  IF a = NaN THEN "NaN"
        ELSE IF a < 0 THEN "-" \o body ELSE body

(* str::contains                                                           *)
Contains(s, sub) ==
    \E i \in 1 .. (Len(s) - Len(sub) + 1) :
        SubSeq(s, i, i + Len(sub) - 1) = sub

BoolToString(b) == IF b THEN "true" ELSE "false"

-----------------------------------------------------------------------------
(* types.rs                                                                *)

ContractStatus ==
    {"Draft", "Deploying", "Deployed", "Active", "Paused", "Completed", "Failed"}

(* ContractConfig values offered to the creation functions.                *)
Configs ==
    [contract_type : ContractTypes,
     parties : {<<>>, <<"a@test.com", "b@test.com">>},
     payment : [amount : {-100, 990},
                token : {"", "USDC"},
                frequency : {"monthly"},
                blockchain : {<<>>, <<"">>, <<"polygon">>}],
     conditions : {<<>>},
     metadata : {<<>>}]

-----------------------------------------------------------------------------
(* core/contract.rs                                                        *)

(* The UCLContract that from_config builds, whatever the configuration.    *)
PlaceholderUCL ==
    [contract_id |-> "smart402:contract:abc123",
     version |-> "1.0",
     standard |-> "UCL-1.0",
     summary |-> [title |-> "Contract",
                  plain_english |-> "Contract summary",
                  what_it_does |-> "",
                  who_its_for |-> "",
                  when_it_executes |-> ""],
     metadata |-> [contract_type |-> "custom",
                   category |-> "general",
                   parties |-> <<>>,
                   dates |-> [effective |-> "2024-01-01",
                              duration |-> "12 months",
                              renewal |-> "auto"]],
     payment |-> [structure |-> "fixed",
                  amount |-> 0,
                  currency |-> "USD",
                  token |-> "USDC",
                  blockchain |-> "polygon",
                  frequency |-> "one-time"],
     conditions |-> [required |-> <<>>, optional |-> None],
     oracles |-> <<>>,
     rules |-> <<>>]

(* A from_config that hands out the contract as already deployed.         *)
FromConfig_Deployed(config) ==
    [ucl |-> PlaceholderUCL,
     status |-> "Deployed",
     deployed_address |-> None,
     transaction_hash |-> None]

(* Contract::from_config: Ok(Contract) in status Draft.                    *)
FromConfig(config) ==
    [ucl |-> PlaceholderUCL,
     status |-> "Draft",
     deployed_address |-> None,
     transaction_hash |-> None]

PlaceholderAddress == "0x1234567890abcdef"
PlaceholderTxHash == "0xabcdef1234567890"
PlaceholderBlock == 12345678

(* A deploy() that reports the address in place of the transaction hash.   *)
DeployResultOf_HashMixedUp(c, network) ==
    [op |-> "deploy",
     ok |-> TRUE,
     success |-> TRUE,
     address |-> PlaceholderAddress,
     transaction_hash |-> PlaceholderAddress,
     network |-> network,
     block_number |-> Some(PlaceholderBlock),
     contract_id |-> c.ucl.contract_id]

(* The DeployResult deploy() returns.                                      *)
DeployResultOf(c, network) ==
    [op |-> "deploy",
     ok |-> TRUE,
     success |-> TRUE,
     address |-> PlaceholderAddress,
     transaction_hash |-> PlaceholderTxHash,
     network |-> network,
     block_number |-> Some(PlaceholderBlock),
     contract_id |-> c.ucl.contract_id]

(* The PaymentResult execute_payment() returns.                            *)
PaymentResultOf(c) ==
    [op |-> "execute_payment",
     ok |-> TRUE,
     success |-> TRUE,
     transaction_hash |-> "0xpayment123",
     amount |-> c.ucl.payment.amount,
     token |-> c.ucl.payment.token,
     network |-> c.ucl.payment.blockchain,
     from |-> "0xfrom",
     to |-> "0xto"]

(* The ConditionCheckResult check_conditions() returns.                    *)
ConditionCheckResultOf(c, time) ==
    [op |-> "check_conditions",
     ok |-> TRUE,
     all_met |-> TRUE,
     conditions |-> <<>>,
     timestamp |-> time]

MonitoringResult == [op |-> "start_monitoring", ok |-> TRUE]
NoRet == [op |-> "none", ok |-> TRUE]

DeployPcs == {"deploy_65", "deploy_71", "deploy_72", "deploy_73", "deploy_75"}
PaymentPcs == {"pay_87"}

ContractIds == 1 .. Len(contracts)

(* &mut self: no other caller holds any borrow of the instance.            *)
CanBorrowMut(t, c) == \A u \in Threads \ {t} : target[u] # c
(* &self: no caller holds the exclusive borrow of the instance.            *)
CanBorrowShared(c) == \A u \in Threads : target[u] = c => pc[u] \notin DeployPcs

Release(t, r) ==
    /\ pc' = [pc EXCEPT ![t] = "idle"]
    /\ target' = [target EXCEPT ![t] = 0]
    /\ arg' = [arg EXCEPT ![t] = ""]
    /\ ret' = [ret EXCEPT ![t] = r]

-----------------------------------------------------------------------------
(* core/smart402.rs: Smart402::create -> create_contract -> from_config    *)

Create(config) ==
    /\ Len(contracts) < MaxContracts
    /\ contracts' = Append(contracts, FromConfig(config))
    /\ UNCHANGED <<pc, target, arg, ret, now, genIds, x402Vars, engineVars>>

-----------------------------------------------------------------------------
(* Contract::deploy(&mut self, network), one action per statement          *)

DeployCall(t, c, network) ==
    /\ pc[t] = "idle"
    /\ c \in ContractIds
    /\ CanBorrowMut(t, c)
    /\ pc' = [pc EXCEPT ![t] = "deploy_65"]
    /\ target' = [target EXCEPT ![t] = c]
    /\ arg' = [arg EXCEPT ![t] = network]
    /\ UNCHANGED <<contracts, ret, now, genIds, x402Vars, engineVars>>

(* self.status = ContractStatus::Deploying                                 *)
Deploy65(t) ==
    /\ pc[t] = "deploy_65"
    /\ contracts' = [contracts EXCEPT ![target[t]].status = "Deploying"]
    /\ pc' = [pc EXCEPT ![t] = "deploy_71"]
    /\ UNCHANGED <<target, arg, ret, now, genIds, x402Vars, engineVars>>

(* self.deployed_address = Some(address.clone())                           *)
Deploy71(t) ==
    /\ pc[t] = "deploy_71"
    /\ contracts' = [contracts EXCEPT
                       ![target[t]].deployed_address = Some(PlaceholderAddress)]
    /\ pc' = [pc EXCEPT ![t] = "deploy_72"]
    /\ UNCHANGED <<target, arg, ret, now, genIds, x402Vars, engineVars>>

(* self.transaction_hash = Some(tx_hash.clone())                           *)
Deploy72(t) ==
    /\ pc[t] = "deploy_72"
    /\ contracts' = [contracts EXCEPT
                       ![target[t]].transaction_hash = Some(PlaceholderTxHash)]
    /\ pc' = [pc EXCEPT ![t] = "deploy_73"]
    /\ UNCHANGED <<target, arg, ret, now, genIds, x402Vars, engineVars>>

(* A line 73 that marks the contract Active.                               *)
Deploy73_Active(t) ==
    /\ pc[t] = "deploy_73"
    /\ contracts' = [contracts EXCEPT ![target[t]].status = "Active"]
    /\ pc' = [pc EXCEPT ![t] = "deploy_75"]
    /\ UNCHANGED <<target, arg, ret, now, genIds, x402Vars, engineVars>>

(* self.status = ContractStatus::Deployed                                  *)
Deploy73(t) ==
    /\ pc[t] = "deploy_73"
    /\ contracts' = [contracts EXCEPT ![target[t]].status = "Deployed"]
    /\ pc' = [pc EXCEPT ![t] = "deploy_75"]
    /\ UNCHANGED <<target, arg, ret, now, genIds, x402Vars, engineVars>>

(* Ok(DeployResult { .. })                                                 *)
Deploy75(t) ==
    /\ pc[t] = "deploy_75"
    /\ Release(t, DeployResultOf(contracts[target[t]], arg[t]))
    /\ UNCHANGED <<contracts, now, genIds, x402Vars, engineVars>>

-----------------------------------------------------------------------------
(* Contract::execute_payment(&self)                                        *)

PaymentCall(t, c) ==
    /\ pc[t] = "idle"
    /\ c \in ContractIds
    /\ CanBorrowShared(c)
    /\ pc' = [pc EXCEPT ![t] = "pay_87"]
    /\ target' = [target EXCEPT ![t] = c]
    /\ UNCHANGED <<contracts, arg, ret, now, genIds, x402Vars, engineVars>>

(* An execute_payment that marks the contract Active.                      *)
Payment87_Activates(t) ==
    /\ pc[t] = "pay_87"
    /\ Release(t, PaymentResultOf(contracts[target[t]]))
    /\ contracts' = [contracts EXCEPT ![target[t]].status = "Active"]
    /\ UNCHANGED <<now, genIds, x402Vars, engineVars>>

(* Ok(PaymentResult { success: true, .. })                                 *)
Payment87(t) ==
    /\ pc[t] = "pay_87"
    /\ Release(t, PaymentResultOf(contracts[target[t]]))
    /\ UNCHANGED <<contracts, now, genIds, x402Vars, engineVars>>

-----------------------------------------------------------------------------
(* Contract::start_monitoring(&self, ..) and Contract::check_conditions    *)

StartMonitoring(t, c) ==
    /\ pc[t] = "idle"
    /\ c \in ContractIds
    /\ CanBorrowShared(c)
    /\ ret' = [ret EXCEPT ![t] = MonitoringResult]
    /\ UNCHANGED <<contracts, pc, target, arg, now, genIds, x402Vars, engineVars>>

CheckConditions(t, c) ==
    /\ pc[t] = "idle"
    /\ c \in ContractIds
    /\ CanBorrowShared(c)
    /\ ret' = [ret EXCEPT ![t] = ConditionCheckResultOf(contracts[c], now)]
    /\ UNCHANGED <<contracts, pc, target, arg, now, genIds, x402Vars, engineVars>>

-----------------------------------------------------------------------------
(* utils/mod.rs                                                            *)

(* format!("smart402:{}:{:x}", contract_type, timestamp)                   *)
generate_contract_id(contract_type, timestamp) ==
    "smart402:" \o contract_type \o ":" \o ToHex(timestamp)

GenerateContractId(contract_type) ==
    /\ Len(genIds) < MaxIds
    /\ genIds' = Append(genIds, generate_contract_id(contract_type, now))
    /\ UNCHANGED <<contracts, pc, target, arg, ret, now, x402Vars, engineVars>>

(* The system clock advances by one second.                                *)
Tick ==
    /\ now < StartTime + MaxTicks
    /\ now' = now + 1
    /\ UNCHANGED <<lifecycleVars, x402Vars, engineVars>>

-----------------------------------------------------------------------------
(* Lifecycle specification                                                 *)

NoVerify == [called |-> FALSE, headers |-> <<>>, result |-> FALSE]
NoOut == [op |-> "none"]

Init ==
    /\ contracts = <<>>
    /\ pc = [t \in Threads |-> "idle"]
    /\ target = [t \in Threads |-> 0]
    /\ arg = [t \in Threads |-> ""]
    /\ ret = [t \in Threads |-> NoRet]
    /\ now = StartTime
    /\ genIds = <<>>
    /\ xucl = PlaceholderUCL
    /\ issued = <<>>
    /\ verified = NoVerify
    /\ eucl = PlaceholderUCL
    /\ out = NoOut

Next ==
    \/ \E config \in Configs : Create(config)
    \/ \E t \in Threads, c \in ContractIds, network \in Networks :
          DeployCall(t, c, network)
    \/ \E t \in Threads : Deploy65(t)
    \/ \E t \in Threads : Deploy71(t)
    \/ \E t \in Threads : Deploy72(t)
    \/ \E t \in Threads : Deploy73(t)
    \/ \E t \in Threads : Deploy75(t)
    \/ \E t \in Threads, c \in ContractIds : PaymentCall(t, c)
    \/ \E t \in Threads : Payment87(t)
    \/ \E t \in Threads, c \in ContractIds : StartMonitoring(t, c)
    \/ \E t \in Threads, c \in ContractIds : CheckConditions(t, c)
    \/ Tick

Spec == Init /\ [][Next]_vars

-----------------------------------------------------------------------------
(* x402/client.rs                                                          *)

(* X402Client::generate_nonce: format!("{}", timestamp)                    *)
generate_nonce(timestamp) == ToDecimal(timestamp)

(* X402Client::simple_hash: format!("{:x}", data.len())                    *)
simple_hash(data) == ToHex(Len(data))

(* X402Client::generate_signature                                          *)
generate_signature(ucl, nonce) ==
    LET data == ucl.contract_id \o ":" \o AmountToString(ucl.payment.amount)
                  \o ":" \o ucl.payment.token \o ":" \o nonce
    IN  "sig_" \o simple_hash(data)

(* X402Client::generate_headers, called when the clock reads timestamp     *)
generate_headers(ucl, conditions_met, timestamp) ==
    LET nonce == generate_nonce(timestamp)
        signature == generate_signature(ucl, nonce)
    IN  [contract_id |-> ucl.contract_id,
         payment_amount |-> AmountToString(ucl.payment.amount),
         payment_token |-> ucl.payment.token,
         settlement_network |-> ucl.payment.blockchain,
         conditions_met |-> BoolToString(conditions_met),
         signature |-> signature,
         nonce |-> nonce]

HeaderNames ==
    {"X402-Contract-ID", "X402-Payment-Amount", "X402-Payment-Token",
     "X402-Settlement-Network", "X402-Conditions-Met", "X402-Signature",
     "X402-Nonce"}

(* X402Headers::to_map                                                     *)
to_map(h) ==
    [k \in HeaderNames |->
        CASE k = "X402-Contract-ID" -> h.contract_id
          [] k = "X402-Payment-Amount" -> h.payment_amount
          [] k = "X402-Payment-Token" -> h.payment_token
          [] k = "X402-Settlement-Network" -> h.settlement_network
          [] k = "X402-Conditions-Met" -> h.conditions_met
          [] k = "X402-Signature" -> h.signature
          [] k = "X402-Nonce" -> h.nonce]

(* X402Client::verify_response: Ok(true) for every header map.             *)
verify_response(headers) == TRUE

(* The UCLContract values handed to the client.                            *)
XUcls ==
    {[PlaceholderUCL EXCEPT !.contract_id = id,
                            !.payment.amount = amount,
                            !.payment.token = token] :
        id \in {"smart402:contract:abc123", "smart402:test:9"},
        amount \in {1, 990},
        token \in {"USDC", "DAI"}}

(* The header maps a peer can send back: a map the client issued, the same *)
(* map with one signed field or the signature altered, or with it missing. *)
TamperNames ==
    {"X402-Contract-ID", "X402-Payment-Amount", "X402-Payment-Token",
     "X402-Nonce", "X402-Signature"}

Altered(m, k) == [m EXCEPT ![k] = m[k] \o "0"]
Without(m, k) == [n \in (DOMAIN m) \ {k} |-> m[n]]

ReceivedMaps ==
    LET sent == {to_map(issued[i]) : i \in 1 .. Len(issued)}
    IN  sent \cup {Altered(m, k) : m \in sent, k \in TamperNames}
             \cup {Without(m, k) : m \in sent, k \in TamperNames}

GenerateHeaders(conditions_met) ==
    /\ Len(issued) < MaxHeaders
    /\ issued' = Append(issued, generate_headers(xucl, conditions_met, now))
    /\ UNCHANGED <<lifecycleVars, now, xucl, verified, engineVars>>

VerifyResponse(headers) ==
    /\ verified' = [called |-> TRUE,
                    headers |-> headers,
                    result |-> verify_response(headers)]
    /\ UNCHANGED <<lifecycleVars, now, xucl, issued, engineVars>>

InitX402 ==
    /\ contracts = <<>>
    /\ pc = [t \in Threads |-> "idle"]
    /\ target = [t \in Threads |-> 0]
    /\ arg = [t \in Threads |-> ""]
    /\ ret = [t \in Threads |-> NoRet]
    /\ now = StartTime
    /\ genIds = <<>>
    /\ xucl \in XUcls
    /\ issued = <<>>
    /\ verified = NoVerify
    /\ eucl = PlaceholderUCL
    /\ out = NoOut

NextX402 ==
    \/ \E conditions_met \in BOOLEAN : GenerateHeaders(conditions_met)
    \/ \E headers \in ReceivedMaps : VerifyResponse(headers)
    \/ Tick

SpecX402 == InitX402 /\ [][NextX402]_vars

(* generate_contract_id on its own                                         *)
NextIds ==
    \/ \E contract_type \in ContractTypes : GenerateContractId(contract_type)
    \/ Tick

SpecIds == Init /\ [][NextIds]_vars

-----------------------------------------------------------------------------
(* llmo/engine.rs                                                          *)

(* LLMOEngine::validate                                                    *)
validate(ucl) ==
    LET errors ==
            (IF ucl.contract_id = "" THEN <<"contract_id is required">>
             ELSE <<>>)
            \o (IF ucl.version = "" THEN <<"version is required">> ELSE <<>>)
            \o (IF F64Lt(ucl.payment.amount, 0)
                THEN <<"payment amount cannot be negative">> ELSE <<>>)
        warnings ==
            (IF ucl.summary.title = "" THEN <<"title should be provided">>
             ELSE <<>>)
            \o (IF ucl.summary.plain_english = ""
                THEN <<"plain_english summary should be provided">> ELSE <<>>)
            \o (IF ucl.payment.currency = ""
                THEN <<"currency should be specified">> ELSE <<>>)
    IN  [ok |-> TRUE,
         valid |-> errors = <<>>,
         errors |-> errors,
         warnings |-> warnings]

RECURSIVE ConditionLines(_)
ConditionLines(required) ==
    IF required = <<>> THEN ""
    ELSE "- " \o Head(required).description \o "\n"
           \o ConditionLines(Tail(required))

(* LLMOEngine::explain                                                     *)
explain(ucl) ==
    "# " \o ucl.summary.title \o "\n\n"
    \o ucl.summary.plain_english \o "\n\n"
    \o "## Contract Details\n\n"
    \o "- **Type**: " \o ucl.metadata.contract_type \o "\n"
    \o "- **Category**: " \o ucl.metadata.category \o "\n"
    \o "- **Effective Date**: " \o ucl.metadata.dates.effective \o "\n"
    \o "- **Duration**: " \o ucl.metadata.dates.duration \o "\n\n"
    \o "## Payment Terms\n\n"
    \o "- **Amount**: " \o AmountToString(ucl.payment.amount) \o " "
    \o ucl.payment.currency \o "\n"
    \o "- **Token**: " \o ucl.payment.token \o "\n"
    \o "- **Network**: " \o ucl.payment.blockchain \o "\n"
    \o "- **Frequency**: " \o ucl.payment.frequency \o "\n\n"
    \o (IF ucl.conditions.required # <<>>
        THEN "## Conditions\n\n" \o ConditionLines(ucl.conditions.required)
               \o "\n"
        ELSE "")

(* The text of compile_solidity with its three substitutions.             *)
SolidityTemplate(title, plain_english, amount) ==
    "// SPDX-License-Identifier: MIT\n"
    \o "pragma solidity ^0.8.0;\n"
    \o "\n"
    \o "/**\n"
    \o " * " \o title \o "\n"
    \o " * " \o plain_english \o "\n"
    \o " */\n"
    \o "contract Smart402Contract {\n"
    \o "    address public owner;\n"
    \o "    uint256 public paymentAmount;\n"
    \o "    address public paymentToken;\n"
    \o "\n"
    \o "    constructor(address _token) {\n"
    \o "        owner = msg.sender;\n"
    \o "        paymentAmount = " \o amount \o " * 10**18;\n"
    \o "        paymentToken = _token;\n"
    \o "    }\n"
    \o "\n"
    \o "    function executePayment() public payable {\n"
    \o "        require(msg.value >= paymentAmount, \"Insufficient payment\");\n"
    \o "        // Payment logic here\n"
    \o "    }\n"
    \o "}\n"

(* The text of compile_javascript with its five substitutions.            *)
JavascriptTemplate(title, plain_english, amount, token, blockchain) ==
    "/**\n"
    \o " * " \o title \o "\n"
    \o " * " \o plain_english \o "\n"
    \o " */\n"
    \o "class Smart402Contract {\n"
    \o "  constructor() {\n"
    \o "    this.paymentAmount = " \o amount \o ";\n"
    \o "    this.paymentToken = '" \o token \o "';\n"
    \o "    this.network = '" \o blockchain \o "';\n"
    \o "  }\n"
    \o "\n"
    \o "  async executePayment() {\n"
    \o "    // Payment execution logic\n"
    \o "    return {\n"
    \o "      success: true,\n"
    \o "      amount: this.paymentAmount,\n"
    \o "      token: this.paymentToken\n"
    \o "    };\n"
    \o "  }\n"
    \o "}\n"
    \o "\n"
    \o "module.exports = Smart402Contract;\n"

(* The text of compile_rust with its five substitutions.                  *)
RustTemplate(title, plain_english, amount, token, blockchain) ==
    "/// " \o title \o "\n"
    \o "/// " \o plain_english \o "\n"
    \o "pub struct Smart402Contract {\n"
    \o "    pub payment_amount: f64,\n"
    \o "    pub payment_token: String,\n"
    \o "    pub network: String,\n"
    \o "}\n"
    \o "\n"
    \o "impl Smart402Contract {\n"
    \o "    pub fn new() -> Self {\n"
    \o "        Self {\n"
    \o "            payment_amount: " \o amount \o ",\n"
    \o "            payment_token: \"" \o token \o "\".to_string(),\n"
    \o "            network: \"" \o blockchain \o "\".to_string(),\n"
    \o "        }\n"
    \o "    }\n"
    \o "\n"
    \o "    pub async fn execute_payment(&self) -> Result<PaymentResult> {\n"
    \o "        // Payment execution logic\n"
    \o "        Ok(PaymentResult {\n"
    \o "            success: true,\n"
    \o "            amount: self.payment_amount,\n"
    \o "            token: self.payment_token.clone(),\n"
    \o "        })\n"
    \o "    }\n"
    \o "}\n"

(* LLMOEngine::compile_solidity                                            *)
compile_solidity(ucl) ==
    [ok |-> TRUE,
     text |-> SolidityTemplate(ucl.summary.title, ucl.summary.plain_english,
                               AmountToString(ucl.payment.amount))]

(* A javascript generator that puts the token where the blockchain goes.  *)
compile_javascript_TokenTwice(ucl) ==
    [ok |-> TRUE,
     text |-> JavascriptTemplate(ucl.summary.title, ucl.summary.plain_english,
                                 AmountToString(ucl.payment.amount),
                                 ucl.payment.token, ucl.payment.token)]

(* LLMOEngine::compile_javascript                                          *)
compile_javascript(ucl) ==
    [ok |-> TRUE,
     text |-> JavascriptTemplate(ucl.summary.title, ucl.summary.plain_english,
                                 AmountToString(ucl.payment.amount),
                                 ucl.payment.token, ucl.payment.blockchain)]

(* LLMOEngine::compile_rust                                                *)
compile_rust(ucl) ==
    [ok |-> TRUE,
     text |-> RustTemplate(ucl.summary.title, ucl.summary.plain_english,
                           AmountToString(ucl.payment.amount),
                           ucl.payment.token, ucl.payment.blockchain)]

(* A dispatcher whose fallback arm generates Solidity.                     *)
compile_FallsBack(ucl, lang) ==
    CASE lang = "solidity" -> compile_solidity(ucl)
      [] lang = "javascript" -> compile_javascript(ucl)
      [] lang = "rust" -> compile_rust(ucl)
      [] OTHER -> compile_solidity(ucl)

(* LLMOEngine::compile                                                     *)
compile(ucl, lang) ==
    CASE lang = "solidity" -> compile_solidity(ucl)
      [] lang = "javascript" -> compile_javascript(ucl)
      [] lang = "rust" -> compile_rust(ucl)
      [] OTHER -> [ok |-> FALSE,
                   error |-> "CompilationError",
                   message |-> "Unsupported target: " \o lang]

SupportedTargets == {"solidity", "javascript", "rust"}
Targets == SupportedTargets \cup {"python", "Solidity", ""}

(* One required ConditionDefinition.                                       *)
UptimeCondition ==
    [id |-> "uptime_check",
     description |-> "Service uptime > 99%",
     source |-> "api",
     operator |-> "gt",
     threshold |-> Some(99)]

(* The UCLContract values handed to the LLMO engine.                       *)
LlmoUcls ==
    {[PlaceholderUCL EXCEPT !.contract_id = id,
                            !.version = version,
                            !.summary.title = title,
                            !.summary.plain_english = plain_english,
                            !.payment.amount = amount,
                            !.payment.currency = currency,
                            !.payment.token = token,
                            !.payment.blockchain = blockchain,
                            !.conditions.required = required] :
        id \in {"", "smart402:contract:abc123"},
        version \in {"", "1.0"},
        title \in {"", "Contract", "Pay */ now\nor later"},
        plain_english \in {"", "Contract summary"},
        amount \in {-100, 0, 1, 990, NaN},
        currency \in {"", "USD"},
        token \in {"USDC", "US'D\"C"},
        blockchain \in {"polygon", "poly\"g'on"},
        required \in {<<>>, <<UptimeCondition>>}}

Validate ==
    /\ out' = [op |-> "validate", result |-> validate(eucl)]
    /\ UNCHANGED <<lifecycleVars, now, x402Vars, eucl>>

Explain ==
    /\ out' = [op |-> "explain", result |-> [ok |-> TRUE, text |-> explain(eucl)]]
    /\ UNCHANGED <<lifecycleVars, now, x402Vars, eucl>>

Compile(lang) ==
    /\ out' = [op |-> "compile", target |-> lang,
               result |-> compile(eucl, lang)]
    /\ UNCHANGED <<lifecycleVars, now, x402Vars, eucl>>

InitLLMO ==
    /\ contracts = <<>>
    /\ pc = [t \in Threads |-> "idle"]
    /\ target = [t \in Threads |-> 0]
    /\ arg = [t \in Threads |-> ""]
    /\ ret = [t \in Threads |-> NoRet]
    /\ now = StartTime
    /\ genIds = <<>>
    /\ xucl = PlaceholderUCL
    /\ issued = <<>>
    /\ verified = NoVerify
    /\ eucl \in LlmoUcls
    /\ out = NoOut

NextLLMO ==
    \/ Validate
    \/ Explain
    \/ \E lang \in Targets : Compile(lang)

SpecLLMO == InitLLMO /\ [][NextLLMO]_vars

-----------------------------------------------------------------------------
(* aeo/engine.rs                                                           *)
(* Scores and weights are carried in hundredths (0.25 -> 25) and the total *)
(* in ten-thousandths, so that the sums and products are exact.            *)

(* str::starts_with                                                        *)
StartsWith(s, prefix) ==
    Len(s) >= Len(prefix) /\ SubSeq(s, 1, Len(prefix)) = prefix

(* A weight table with two entries exchanged.                              *)
Weights_Exchanged ==
    [semantic_richness |-> 20,
     citation_friendliness |-> 25,
     findability |-> 25,
     authority_signals |-> 15,
     citation_presence |-> 15]

(* AEOEngine::default                                                      *)
Weights ==
    [semantic_richness |-> 25,
     citation_friendliness |-> 20,
     findability |-> 25,
     authority_signals |-> 15,
     citation_presence |-> 15]

(* A semantic richness that counts what_it_does twice and never           *)
(* who_its_for.                                                            *)
calculate_semantic_richness_Miscounted(ucl) ==
    (IF ucl.summary.what_it_does # "" THEN 25 ELSE 0)
    + (IF ucl.summary.what_it_does # "" THEN 25 ELSE 0)
    + (IF ucl.summary.when_it_executes # "" THEN 25 ELSE 0)
    + (IF ucl.metadata.parties # <<>> THEN 25 ELSE 0)

(* AEOEngine::calculate_semantic_richness                                  *)
calculate_semantic_richness(ucl) ==
    (IF ucl.summary.what_it_does # "" THEN 25 ELSE 0)
    + (IF ucl.summary.who_its_for # "" THEN 25 ELSE 0)
    + (IF ucl.summary.when_it_executes # "" THEN 25 ELSE 0)
    + (IF ucl.metadata.parties # <<>> THEN 25 ELSE 0)

(* A citation friendliness that rewards a short plain_english.            *)
calculate_citation_friendliness_ShortSummary(ucl) ==
    (IF StartsWith(ucl.contract_id, "smart402:") THEN 40 ELSE 0)
    + (IF Len(ucl.summary.plain_english) < 50 THEN 30 ELSE 0)
    + (IF ucl.conditions.required # <<>> THEN 30 ELSE 0)

(* AEOEngine::calculate_citation_friendliness                              *)
calculate_citation_friendliness(ucl) ==
    (IF StartsWith(ucl.contract_id, "smart402:") THEN 40 ELSE 0)
    + (IF Len(ucl.summary.plain_english) > 50 THEN 30 ELSE 0)
    + (IF ucl.conditions.required # <<>> THEN 30 ELSE 0)

(* AEOEngine::calculate_findability                                        *)
calculate_findability(ucl) ==
    50 + (IF ucl.metadata.category # "" THEN 25 ELSE 0)
       + (IF ucl.metadata.contract_type # "" THEN 25 ELSE 0)

(* AEOEngine::calculate_authority_signals                                  *)
calculate_authority_signals(ucl) == 50

(* AEOEngine::calculate_citation_presence                                  *)
calculate_citation_presence(ucl) == 50

(* AEOEngine::calculate_score                                              *)
calculate_score(ucl) ==
    LET semantic_richness == calculate_semantic_richness(ucl)
        citation_friendliness == calculate_citation_friendliness(ucl)
        findability == calculate_findability(ucl)
        authority_signals == calculate_authority_signals(ucl)
        citation_presence == calculate_citation_presence(ucl)
    IN  [ok |-> TRUE,
         total |-> semantic_richness * Weights.semantic_richness
                   + citation_friendliness * Weights.citation_friendliness
                   + findability * Weights.findability
                   + authority_signals * Weights.authority_signals
                   + citation_presence * Weights.citation_presence,
         semantic_richness |-> semantic_richness,
         citation_friendliness |-> citation_friendliness,
         findability |-> findability,
         authority_signals |-> authority_signals,
         citation_presence |-> citation_presence]

VendorParty == [role |-> "vendor", identifier |-> "a@test.com", name |-> None]

(* The UCLContract values handed to the AEO engine.                        *)
AeoUcls ==
    {[PlaceholderUCL EXCEPT !.contract_id = id,
                            !.summary.plain_english = plain_english,
                            !.summary.what_it_does = what_it_does,
                            !.summary.who_its_for = who_its_for,
                            !.summary.when_it_executes = when_it_executes,
                            !.metadata.parties = parties,
                            !.metadata.category = category,
                            !.metadata.contract_type = contract_type,
                            !.conditions.required = required] :
        id \in {"", "smart402:contract:abc123", "ucl:smart402:abc123"},
        plain_english \in
            {"", "Contract summary",
             "Pays the vendor 99 USDC on the 1st of every month.",
             "Pays the vendor 99 USDC on the first of every month."},
        what_it_does \in {"", "Pays a subscription"},
        who_its_for \in {"", "Vendors"},
        when_it_executes \in {"", "Monthly"},
        parties \in {<<>>, <<VendorParty>>},
        category \in {"", "general"},
        contract_type \in {"", "custom"},
        required \in {<<>>, <<UptimeCondition>>}}

CalculateScore ==
    /\ out' = [op |-> "calculate_score", result |-> calculate_score(eucl)]
    /\ UNCHANGED <<lifecycleVars, now, x402Vars, eucl>>

InitAEO ==
    /\ contracts = <<>>
    /\ pc = [t \in Threads |-> "idle"]
    /\ target = [t \in Threads |-> 0]
    /\ arg = [t \in Threads |-> ""]
    /\ ret = [t \in Threads |-> NoRet]
    /\ now = StartTime
    /\ genIds = <<>>
    /\ xucl = PlaceholderUCL
    /\ issued = <<>>
    /\ verified = NoVerify
    /\ eucl \in AeoUcls
    /\ out = NoOut

NextAEO == CalculateScore

SpecAEO == InitAEO /\ [][NextAEO]_vars

-----------------------------------------------------------------------------
(* Condition checks on a contract whose conditions were set through the    *)
(* public field `ucl`:                                                     *)
(*   let mut contract = Smart402::create(config).await?;                   *)
(*   contract.ucl.conditions = conditions;                                 *)

PaymentCondition ==
    [id |-> "payment_received",
     description |-> "Payment received",
     source |-> "blockchain",
     operator |-> "eq",
     threshold |-> None]

BonusCondition ==
    [id |-> "bonus_check",
     description |-> "Referral bonus earned",
     source |-> "api",
     operator |-> "gt",
     threshold |-> Some(0)]

(* The Conditions values assigned to contract.ucl.conditions.              *)
CondUcls ==
    {[PlaceholderUCL EXCEPT !.conditions.required = required,
                            !.conditions.optional = optional] :
        required \in {<<>>, <<UptimeCondition>>,
                      <<UptimeCondition, PaymentCondition>>,
                      <<PaymentCondition, UptimeCondition>>},
        optional \in {None, Some(<<BonusCondition>>)}}

InitConditions ==
    /\ \E config \in Configs, ucl \in CondUcls :
          contracts = <<[FromConfig(config) EXCEPT !.ucl = ucl]>>
    /\ pc = [t \in Threads |-> "idle"]
    /\ target = [t \in Threads |-> 0]
    /\ arg = [t \in Threads |-> ""]
    /\ ret = [t \in Threads |-> NoRet]
    /\ now = StartTime
    /\ genIds = <<>>
    /\ xucl = PlaceholderUCL
    /\ issued = <<>>
    /\ verified = NoVerify
    /\ eucl = PlaceholderUCL
    /\ out = NoOut

NextConditions ==
    \/ \E t \in Threads, c \in ContractIds : CheckConditions(t, c)
    \/ \E t \in Threads, c \in ContractIds : StartMonitoring(t, c)
    \/ Tick

SpecConditions == InitConditions /\ [][NextConditions]_vars

-----------------------------------------------------------------------------
(* core/smart402.rs: the creation paths of the facade, followed by the     *)
(* &self calls on the contracts they return.                               *)

(* ContractConfig::default()                                               *)
DefaultConfig ==
    [contract_type |-> "",
     parties |-> <<>>,
     payment |-> [amount |-> 0, token |-> "", frequency |-> "",
                  blockchain |-> None],
     conditions |-> None,
     metadata |-> None]

(* Smart402::get_templates, and a name that is not among them.             *)
TemplateNames == {"saas-subscription", "vendor-sla", "no-such-template"}

(* Contract ids passed to Smart402::load.                                  *)
LoadIds == {"smart402:contract:abc123", "smart402:missing:0", ""}

(* Smart402::create_from_template                                          *)
create_from_template(template_name, variables) == FromConfig(DefaultConfig)

(* Smart402::load_contract                                                 *)
load_contract(contract_id) == FromConfig(DefaultConfig)

(* Smart402::from_template: Ok(Contract); the contract is kept at the      *)
(* index recorded in the result.                                           *)
FromTemplate(template_name) ==
    /\ Len(contracts) < MaxContracts
    /\ contracts' = Append(contracts, create_from_template(template_name, <<>>))
    /\ out' = [op |-> "from_template", template_name |-> template_name,
               result |-> [ok |-> TRUE, contract |-> Len(contracts) + 1]]
    /\ UNCHANGED <<pc, target, arg, ret, now, genIds, x402Vars, eucl>>

(* Smart402::load: Ok(Contract)                                            *)
Load(contract_id) ==
    /\ Len(contracts) < MaxContracts
    /\ contracts' = Append(contracts, load_contract(contract_id))
    /\ out' = [op |-> "load", contract_id |-> contract_id,
               result |-> [ok |-> TRUE, contract |-> Len(contracts) + 1]]
    /\ UNCHANGED <<pc, target, arg, ret, now, genIds, x402Vars, eucl>>

NextFacade ==
    \/ \E config \in Configs : Create(config)
    \/ \E template_name \in TemplateNames : FromTemplate(template_name)
    \/ \E contract_id \in LoadIds : Load(contract_id)
    \/ \E t \in Threads, c \in ContractIds : StartMonitoring(t, c)
    \/ \E t \in Threads, c \in ContractIds : CheckConditions(t, c)
    \/ Tick

SpecFacade == Init /\ [][NextFacade]_vars

-----------------------------------------------------------------------------
(* Contract::get_summary and the accessors (&self), together with the      *)
(* calls of the lifecycle; the clock is left out, no accessor reads it.    *)

(* Contract::get_summary                                                   *)
GetSummary(t, c) ==
    /\ pc[t] = "idle"
    /\ c \in ContractIds
    /\ CanBorrowShared(c)
    /\ ret' = [ret EXCEPT ![t] =
                 [op |-> "get_summary", ok |-> TRUE,
                  summary |-> contracts[c].ucl.summary.plain_english]]
    /\ UNCHANGED <<contracts, pc, target, arg, now, genIds, x402Vars, engineVars>>

(* Contract::status                                                        *)
Status(t, c) ==
    /\ pc[t] = "idle"
    /\ c \in ContractIds
    /\ CanBorrowShared(c)
    /\ ret' = [ret EXCEPT ![t] =
                 [op |-> "status", ok |-> TRUE, status |-> contracts[c].status]]
    /\ UNCHANGED <<contracts, pc, target, arg, now, genIds, x402Vars, engineVars>>

(* Contract::address                                                       *)
Address(t, c) ==
    /\ pc[t] = "idle"
    /\ c \in ContractIds
    /\ CanBorrowShared(c)
    /\ ret' = [ret EXCEPT ![t] =
                 [op |-> "address", ok |-> TRUE,
                  address |-> contracts[c].deployed_address]]
    /\ UNCHANGED <<contracts, pc, target, arg, now, genIds, x402Vars, engineVars>>

(* Contract::transaction_hash                                              *)
TransactionHash(t, c) ==
    /\ pc[t] = "idle"
    /\ c \in ContractIds
    /\ CanBorrowShared(c)
    /\ ret' = [ret EXCEPT ![t] =
                 [op |-> "transaction_hash", ok |-> TRUE,
                  transaction_hash |-> contracts[c].transaction_hash]]
    /\ UNCHANGED <<contracts, pc, target, arg, now, genIds, x402Vars, engineVars>>

NextAccess ==
    \/ \E config \in Configs : Create(config)
    \/ \E t \in Threads, c \in ContractIds, network \in Networks :
          DeployCall(t, c, network)
    \/ \E t \in Threads : Deploy65(t)
    \/ \E t \in Threads : Deploy71(t)
    \/ \E t \in Threads : Deploy72(t)
    \/ \E t \in Threads : Deploy73(t)
    \/ \E t \in Threads : Deploy75(t)
    \/ \E t \in Threads, c \in ContractIds : PaymentCall(t, c)
    \/ \E t \in Threads : Payment87(t)
    \/ \E t \in Threads, c \in ContractIds : StartMonitoring(t, c)
    \/ \E t \in Threads, c \in ContractIds : CheckConditions(t, c)
    \/ \E t \in Threads, c \in ContractIds : GetSummary(t, c)
    \/ \E t \in Threads, c \in ContractIds : Status(t, c)
    \/ \E t \in Threads, c \in ContractIds : Address(t, c)
    \/ \E t \in Threads, c \in ContractIds : TransactionHash(t, c)

SpecAccess == Init /\ [][NextAccess]_vars

-----------------------------------------------------------------------------
(* Properties of the lifecycle (Spec)                                      *)

(* C1: execute_payment() on a contract whose status is Draft or Deploying  *)
(* is rejected: the call returns an error, never a successful              *)
(* PaymentResult.                                                          *)
C1_PaymentRejectedBeforeDeployed ==
    [][\A t \in Threads :
          (/\ pc[t] = "pay_87"
           /\ pc'[t] = "idle"
           /\ contracts[target[t]].status \in {"Draft", "Deploying"})
          => ~ret'[t].ok]_vars

(* C2: a deploy() call that starts on a Draft contract sets the status to  *)
(* Deploying, keeps it there until line 73 sets Deployed, and when it      *)
(* returns the status is Deployed and the stored address and transaction   *)
(* hash are those of the DeployResult it returns.                          *)
C2_DeployFromDraft ==
    [][\A t \in Threads :
          LET c == target[t] IN
          /\ (pc[t] = "deploy_65" /\ pc'[t] = "deploy_71"
                /\ contracts[c].status = "Draft")
                => contracts'[c].status = "Deploying"
          /\ (pc[t] \in {"deploy_71", "deploy_72"} /\ pc'[t] # pc[t])
                => (contracts[c].status = "Deploying"
                      /\ contracts'[c].status = "Deploying")
          /\ (pc[t] = "deploy_73" /\ pc'[t] = "deploy_75")
                => (contracts[c].status = "Deploying"
                      /\ contracts'[c].status = "Deployed")
          /\ (pc[t] = "deploy_75" /\ pc'[t] = "idle")
                => (/\ ret'[t].op = "deploy"
                    /\ ret'[t].ok
                    /\ contracts'[c].status = "Deployed"
                    /\ contracts'[c].deployed_address = Some(ret'[t].address)
                    /\ contracts'[c].transaction_hash
                          = Some(ret'[t].transaction_hash))]_vars

(* A deploy() call has returned its DeployResult and the contract it       *)
(* deployed is Deployed with an address stored.                            *)
C2_Witness ==
    \E t \in Threads, c \in ContractIds :
        /\ ret[t].op = "deploy"
        /\ pc[t] = "idle"
        /\ contracts[c].status = "Deployed"
        /\ contracts[c].deployed_address = Some(ret[t].address)

(* C5: on one Contract instance at most one deploy()/execute_payment()     *)
(* call is in flight at any time.                                          *)
C5_AtMostOneInFlight ==
    \A c \in ContractIds :
        Cardinality({t \in Threads :
                        target[t] = c /\ pc[t] \in DeployPcs \cup PaymentPcs}) <= 1

(* C7: any two contracts created in the process have different             *)
(* contract_id values.                                                     *)
C7_UniqueContractIds ==
    \A i, j \in ContractIds :
        i # j => contracts[i].ucl.contract_id # contracts[j].ucl.contract_id

(* The contract a Create step has just appended.                           *)
Created == contracts'[Len(contracts')]

(* C12: creation from a configuration whose parties list is empty, or      *)
(* whose payment token or blockchain is empty, fails with ConfigError and  *)
(* returns no contract.                                                    *)
C12_CreateRejectsIncompleteConfig ==
    [][\A config \in Configs :
          (/\ Create(config)
           /\ \/ config.parties = <<>>
              \/ config.payment.token = ""
              \/ config.payment.blockchain \in {None, Some("")})
          => contracts' = contracts]_vars

(* C13: Smart402::create with a negative payment amount returns an error   *)
(* instead of a contract.                                                  *)
C13_CreateRejectsNegativeAmount ==
    [][\A config \in Configs :
          (Create(config) /\ F64Lt(config.payment.amount, 0))
          => contracts' = contracts]_vars

(* C14: for a contract built from a configuration with a negative amount,  *)
(* validate() on its UCL returns valid = false and an error that refers    *)
(* to the amount.                                                          *)
C14_NegativeAmountSurfaced ==
    [][\A config \in Configs :
          (Create(config) /\ F64Lt(config.payment.amount, 0))
          => LET v == validate(Created.ucl)
             IN  /\ ~v.valid
                 /\ \E i \in 1 .. Len(v.errors) :
                       Contains(v.errors[i], "amount")]_vars

(* C15: a contract created from a configuration has a contract_id that     *)
(* contains "smart402:", the configuration's payment amount and token,     *)
(* and one metadata party per configured party.                            *)
C15_CreatedCarriesConfig ==
    [][\A config \in Configs :
          Create(config)
          => /\ Contains(Created.ucl.contract_id, "smart402:")
             /\ Created.ucl.payment.amount = config.payment.amount
             /\ Created.ucl.payment.token = config.payment.token
             /\ Len(Created.ucl.metadata.parties) = Len(config.parties)]_vars

(* C22 (SpecFacade): every Contract is created in status Draft with no     *)
(* deployed address and no transaction hash, whichever creation path       *)
(* (create, from_template, load, from_config) appended it.                 *)
C22_CreatedInDraft ==
    [][Len(contracts') > Len(contracts)
          => /\ Created.status = "Draft"
             /\ Created.deployed_address = None
             /\ Created.transaction_hash = None]_vars

(* Two contracts exist, the second of them returned by load or             *)
(* from_template, the first by another path.                               *)
C22_Witness ==
    /\ Len(contracts) = 2
    /\ out.op \in {"load", "from_template"}
    /\ out.result.contract = 2
    /\ contracts[2].status = "Draft"

(* Some contract kept by the process has this contract_id.                 *)
Known(contract_id) ==
    \E c \in ContractIds : contracts[c].ucl.contract_id = contract_id

(* C23 (SpecFacade): Smart402::load of a contract id that identifies no    *)
(* existing contract fails with NotFoundError and returns no Contract.     *)
C23_LoadUnknownFails ==
    [][\A contract_id \in LoadIds :
          (Load(contract_id) /\ ~Known(contract_id))
          => /\ ~out'.result.ok
             /\ out'.result.error = "NotFoundError"
             /\ contracts' = contracts]_vars

(* C26: deploy() is accepted only from Draft: the status of a contract     *)
(* enters Deploying only from Draft, and a deploy() call on a contract in  *)
(* any other status leaves its status, deployed address and transaction    *)
(* hash unchanged.                                                         *)
C26_DeployOnlyFromDraft ==
    [][\A t \in Threads :
          (pc[t] = "deploy_65" /\ pc'[t] # "deploy_65"
             /\ contracts[target[t]].status # "Draft")
          => /\ contracts'[target[t]] = contracts[target[t]]
             /\ pc'[t] = "idle"
             /\ ~ret'[t].ok]_vars

(* Some deploy() call is executing on contract c.                          *)
Deploying(c) == \E t \in Threads : target[t] = c /\ pc[t] \in DeployPcs

(* C29: whenever no deploy() call is executing on a contract, its status   *)
(* is Draft or Deployed and the deployed address and the transaction hash  *)
(* are both set exactly when the status is Deployed; Active, Paused,       *)
(* Completed and Failed are never reached.                                 *)
C29_DraftOrDeployed ==
    \A c \in ContractIds :
        /\ contracts[c].status \notin {"Active", "Paused", "Completed", "Failed"}
        /\ ~Deploying(c)
           => /\ contracts[c].status \in {"Draft", "Deployed"}
              /\ contracts[c].deployed_address # None
                    <=> contracts[c].status = "Deployed"
              /\ contracts[c].transaction_hash # None
                    <=> contracts[c].status = "Deployed"

(* One contract is Deployed with its address and hash stored, another is   *)
(* still Draft, and no call is executing.                                  *)
C29_Witness ==
    /\ \A t \in Threads : pc[t] = "idle"
    /\ \E c, d \in ContractIds :
          /\ contracts[c].status = "Deployed"
          /\ contracts[c].deployed_address = Some(PlaceholderAddress)
          /\ contracts[c].transaction_hash = Some(PlaceholderTxHash)
          /\ contracts[d].status = "Draft"
          /\ contracts[d].deployed_address = None

(* C30 (SpecAccess): execute_payment, check_conditions, start_monitoring,  *)
(* get_summary and the accessors leave the status, deployed address,       *)
(* transaction hash and UCL of every contract unchanged; a contract        *)
(* changes only in a step of a deploy() call on it, and its UCL never.     *)
C30_OnlyDeployChanges ==
    [][\A c \in ContractIds :
          /\ contracts'[c].ucl = contracts[c].ucl
          /\ contracts'[c] # contracts[c]
                => \E t \in Threads :
                      /\ target[t] = c
                      /\ pc[t] \in DeployPcs
                      /\ pc'[t] # pc[t]]_vars

(* On a Deployed contract one caller has read the status and the other     *)
(* has completed execute_payment.                                          *)
C30_Witness ==
    \E t, u \in Threads, c \in ContractIds :
        /\ contracts[c].status = "Deployed"
        /\ ret[t].op = "status" /\ ret[t].status = "Deployed"
        /\ ret[u].op = "execute_payment"
        /\ pc[t] = "idle" /\ pc[u] = "idle"

(* The ids of the required ConditionDefinitions of a contract.             *)
RequiredIds(c) ==
    {c.ucl.conditions.required[i].id :
        i \in 1 .. Len(c.ucl.conditions.required)}

(* C20 (SpecConditions): check_conditions returns a map with one boolean   *)
(* entry per required ConditionDefinition id, and all_met is true exactly  *)
(* when every required condition's entry is true, whatever the optional    *)
(* conditions and the order of the required ones.                          *)
C20_OneEntryPerRequired ==
    \A t \in Threads :
        ret[t].op = "check_conditions"
        => /\ DOMAIN ret[t].conditions = RequiredIds(contracts[1])
           /\ \A id \in DOMAIN ret[t].conditions :
                  ret[t].conditions[id] \in BOOLEAN
           /\ ret[t].all_met
                 <=> \A id \in RequiredIds(contracts[1]) :
                         ret[t].conditions[id]

-----------------------------------------------------------------------------
(* Properties of the X402 client (SpecX402)                                *)

(* The value, in tenths, that a decimal numeral denotes.                   *)
DigitValue(ch) == CHOOSE d \in 0 .. 9 : ToDecimal(d) = ch

RECURSIVE NumeralValue(_)
NumeralValue(s) ==
    IF s = "" THEN 0
    ELSE NumeralValue(SubSeq(s, 1, Len(s) - 1)) * 10
         + DigitValue(SubSeq(s, Len(s), Len(s)))

DecimalValue(s) ==
    LET negative == Len(s) > 0 /\ SubSeq(s, 1, 1) = "-"
        body == IF negative THEN SubSeq(s, 2, Len(s)) ELSE s
        dots == {i \in 1 .. Len(body) : SubSeq(body, i, i) = "."}
        tenths == IF dots = {}
                  THEN NumeralValue(body) * 10
                  ELSE LET dot == CHOOSE i \in dots : TRUE
                       IN  NumeralValue(SubSeq(body, 1, dot - 1)) * 10
                           + NumeralValue(SubSeq(body, dot + 1, Len(body)))
    IN  IF s = "NaN" THEN NaN
        ELSE IF negative THEN 0 - tenths ELSE tenths

(* C24: generate_headers(c, b) returns contract_id = c.contract_id,        *)
(* payment_token = c.payment.token, settlement_network =                   *)
(* c.payment.blockchain, payment_amount = the decimal string of            *)
(* c.payment.amount and conditions_met = the string of b; these fields     *)
(* equal those of every earlier call on the same contract; and the call    *)
(* leaves c unchanged.                                                     *)
C24_HeadersCarryContract ==
    [][\A b \in BOOLEAN :
          GenerateHeaders(b)
          => LET h == issued'[Len(issued')]
             IN  /\ h.contract_id = xucl.contract_id
                 /\ h.payment_token = xucl.payment.token
                 /\ h.settlement_network = xucl.payment.blockchain
                 /\ Len(h.payment_amount) > 0
                 /\ DecimalValue(h.payment_amount) = xucl.payment.amount
                 /\ h.conditions_met = (IF b THEN "true" ELSE "false")
                 /\ \A i \in 1 .. Len(issued) :
                       /\ issued[i].contract_id = h.contract_id
                       /\ issued[i].payment_amount = h.payment_amount
                       /\ issued[i].payment_token = h.payment_token
                       /\ issued[i].settlement_network = h.settlement_network
                 /\ xucl' = xucl]_vars

(* Headers were generated twice for a contract with a fractional amount,   *)
(* once with conditions met and once without.                              *)
C24_Witness ==
    /\ Len(issued) = 2
    /\ xucl.payment.amount = 1
    /\ issued[1].conditions_met = "true"
    /\ issued[2].conditions_met = "false"
    /\ issued[1].payment_amount = "0.1"

(* C8: any two generate_headers() calls return different nonce values,     *)
(* also when both are made within the same second.                         *)
C8_UniqueNonces ==
    \A i, j \in 1 .. Len(issued) :
        i # j => issued[i].nonce # issued[j].nonce

(* C9: two calls generate_headers(c, true) on the same contract return     *)
(* different signature values.                                             *)
C9_UniqueSignatures ==
    \A i, j \in 1 .. Len(issued) :
        (i # j /\ issued[i].conditions_met = "true"
               /\ issued[j].conditions_met = "true")
        => issued[i].signature # issued[j].signature

(* The signature recomputed from the fields of a received header map.      *)
SignedNames ==
    {"X402-Contract-ID", "X402-Payment-Amount", "X402-Payment-Token",
     "X402-Nonce"}

ExpectedSignature(m) ==
    "sig_" \o simple_hash(m["X402-Contract-ID"] \o ":"
                            \o m["X402-Payment-Amount"] \o ":"
                            \o m["X402-Payment-Token"] \o ":"
                            \o m["X402-Nonce"])

(* C10: verify_response returns true only for a header map that carries    *)
(* the contract id, amount, token, nonce and signature, and whose          *)
(* signature equals the one recomputed from the received fields.           *)
C10_VerifyOnlyMatching ==
    (verified.called /\ verified.result)
    => (/\ SignedNames \cup {"X402-Signature"} \subseteq DOMAIN verified.headers
        /\ verified.headers["X402-Signature"]
              = ExpectedSignature(verified.headers))

-----------------------------------------------------------------------------
(* Properties of the LLMO engine (SpecLLMO)                                *)

(* C11: validate(c).valid is true if and only if c.contract_id is          *)
(* non-empty, c.version is non-empty and c.payment.amount >= 0; and valid  *)
(* equals errors.is_empty().                                               *)
C11_ValidIff ==
    out.op = "validate"
    => (/\ out.result.valid
             <=> (/\ eucl.contract_id # ""
                  /\ eucl.version # ""
                  /\ F64Ge(eucl.payment.amount, 0))
        /\ out.result.valid <=> (out.result.errors = <<>>))

(* C17: compile(c, target) fails with CompilationError whose message names *)
(* the requested target for every target other than solidity, javascript   *)
(* and rust, and returns no source text for such a target.                 *)
C17_UnsupportedTargetFails ==
    (out.op = "compile" /\ out.target \notin {"solidity", "javascript", "rust"})
    => /\ ~out.result.ok
       /\ out.result.error = "CompilationError"
       /\ Contains(out.result.message, out.target)
       /\ "text" \notin DOMAIN out.result

(* compile has been called with the target "python".                       *)
C17_Witness ==
    out.op = "compile" /\ out.target = "python" /\ ~out.result.ok

(* The five values a generator is said to substitute.                      *)
SubstitutedTerms(ucl) ==
    {ucl.summary.title, ucl.summary.plain_english,
     AmountToString(ucl.payment.amount), ucl.payment.token,
     ucl.payment.blockchain}

(* C18 as stated: for each supported target and every contract, compile    *)
(* succeeds and its output contains the title, plain_english, payment      *)
(* amount, payment token and payment blockchain of the contract.           *)
C18_OutputCarriesAllTerms ==
    (out.op = "compile" /\ out.target \in {"solidity", "javascript", "rust"})
    => /\ out.result.ok
       /\ \A term \in SubstitutedTerms(eucl) : Contains(out.result.text, term)

(* C18 as amended: for each supported target compile succeeds; the         *)
(* javascript and rust outputs contain the title, plain_english, amount,   *)
(* token and blockchain, the solidity output the title, plain_english and  *)
(* amount.                                                                 *)
C18_OutputCarriesTerms ==
    (out.op = "compile" /\ out.target \in {"solidity", "javascript", "rust"})
    => /\ out.result.ok
       /\ \A term \in {eucl.summary.title, eucl.summary.plain_english,
                       AmountToString(eucl.payment.amount)} :
              Contains(out.result.text, term)
       /\ out.target \in {"javascript", "rust"}
          => /\ Contains(out.result.text, eucl.payment.token)
             /\ Contains(out.result.text, eucl.payment.blockchain)

(* A contract whose five values are all distinct and non-empty has been    *)
(* compiled to javascript.                                                 *)
C18_Witness ==
    /\ out.op = "compile" /\ out.target = "javascript" /\ out.result.ok
    /\ eucl.summary.title = "Contract"
    /\ eucl.summary.plain_english = "Contract summary"
    /\ eucl.payment.amount = 990
    /\ eucl.payment.token = "USDC"
    /\ eucl.payment.blockchain = "polygon"

(* A free-text value that would end a string literal or a comment.         *)
NeedsEscape(v) ==
    \/ Contains(v, "\"")
    \/ Contains(v, "'")
    \/ Contains(v, "\n")
    \/ Contains(v, "*/")

(* C19: a title, plain_english, token or blockchain value containing a     *)
(* quote character, a newline or a comment terminator appears in the       *)
(* output of compile only in escaped form, never as the raw value.         *)
C19_FreeTextEscaped ==
    (out.op = "compile" /\ out.result.ok)
    => \A v \in {eucl.summary.title, eucl.summary.plain_english,
                 eucl.payment.token, eucl.payment.blockchain} :
           NeedsEscape(v) => ~Contains(out.result.text, v)

-----------------------------------------------------------------------------
(* Properties of the AEO engine (SpecAEO)                                  *)

(* C16: calculate_score returns each sub-score within [0,1], a total equal *)
(* to semantic_richness*0.25 + citation_friendliness*0.20                  *)
(* + findability*0.25 + authority_signals*0.15 + citation_presence*0.15,   *)
(* and 0 <= total <= 1.                                                    *)
C16_ScoreWeightedAndBounded ==
    out.op = "calculate_score"
    => LET r == out.result
       IN  /\ r.ok
           /\ \A sub \in {r.semantic_richness, r.citation_friendliness,
                          r.findability, r.authority_signals,
                          r.citation_presence} : sub \in 0 .. 100
           /\ r.total = r.semantic_richness * 25
                        + r.citation_friendliness * 20
                        + r.findability * 25
                        + r.authority_signals * 15
                        + r.citation_presence * 15
           /\ r.total \in 0 .. 10000

(* A contract with every scored field present has been scored: all         *)
(* sub-scores that can reach 1 are 1.                                      *)
C16_Witness ==
    /\ out.op = "calculate_score"
    /\ out.result.semantic_richness = 100
    /\ out.result.citation_friendliness = 100
    /\ out.result.findability = 100

(* C27: semantic_richness equals 0.25 times the number of non-empty fields *)
(* among what_it_does, who_its_for and when_it_executes, plus 0.25 if      *)
(* metadata.parties is non-empty; with the three summary fields empty and  *)
(* parties non-empty it is exactly 0.25.                                   *)
C27_SemanticRichnessCounts ==
    out.op = "calculate_score"
    => LET filled == {f \in {"what_it_does", "who_its_for",
                             "when_it_executes"} : eucl.summary[f] # ""}
           parties == IF eucl.metadata.parties # <<>> THEN 1 ELSE 0
       IN  /\ out.result.semantic_richness
                 = 25 * (Cardinality(filled) + parties)
           /\ (filled = {} /\ parties = 1)
                 => out.result.semantic_richness = 25

(* A contract with empty summary fields and a party has been scored.       *)
C27_Witness ==
    /\ out.op = "calculate_score"
    /\ eucl.summary.what_it_does = ""
    /\ eucl.summary.who_its_for = ""
    /\ eucl.summary.when_it_executes = ""
    /\ eucl.metadata.parties # <<>>
    /\ out.result.semantic_richness = 25

(* basic and richer differ only in that richer has additional non-empty    *)
(* scored fields or a longer plain_english.                                *)
RicherThan(richer, basic) ==
    /\ \A f \in {"what_it_does", "who_its_for", "when_it_executes"} :
          basic.summary[f] \in {"", richer.summary[f]}
    /\ basic.metadata.parties \in {<<>>, richer.metadata.parties}
    /\ basic.metadata.category \in {"", richer.metadata.category}
    /\ basic.metadata.contract_type \in {"", richer.metadata.contract_type}
    /\ basic.conditions.required \in {<<>>, richer.conditions.required}
    /\ Len(basic.summary.plain_english) <= Len(richer.summary.plain_english)
    /\ basic.contract_id = richer.contract_id

(* C28: the score is monotone in completeness: the total of a contract is  *)
(* greater than or equal to the total of every contract that differs from  *)
(* it only in lacking some of its non-empty scored fields or in a shorter  *)
(* plain_english.                                                          *)
C28_ScoreMonotone ==
    out.op = "calculate_score"
    => \A basic \in AeoUcls :
           RicherThan(eucl, basic)
           => calculate_score(basic).total <= out.result.total

(* A scored contract has a basic counterpart with a strictly lower total.  *)
C28_Witness ==
    /\ out.op = "calculate_score"
    /\ \E basic \in AeoUcls :
          /\ RicherThan(eucl, basic)
          /\ basic # eucl
          /\ calculate_score(basic).total < out.result.total

TypeOK ==
    /\ \A c \in ContractIds : contracts[c].status \in ContractStatus
    /\ \A t \in Threads : pc[t] \in {"idle"} \cup DeployPcs \cup PaymentPcs
    /\ \A t \in Threads : target[t] \in 0 .. MaxContracts + 1

====
